---- MODULE Spec2Model ----
(***************************************************************************)
(* pelican.conf.py of daily-functor: a Python settings module.  The file   *)
(* is a list of top-level assignments of literals.  Loading it means       *)
(* executing the module: comments are dropped, the remaining statements    *)
(* run top to bottom, each evaluating its right-hand side and binding the  *)
(* name in the module namespace.  The namespace after the last statement   *)
(* is the configuration record.                                            *)
(***************************************************************************)
EXTENDS Integers, Sequences, FiniteSets, TLC

\* number of generator runs that load the file
NumRuns == 2

Runs == 1..NumRuns

VARIABLES
    githubOmitted,  \* line 16 has been commented out, as lines 12-15 allow
    phase,          \* per run: "start", "exec", "loaded", "handed", "exited", "error"
    pc,             \* per run: index of the next statement to execute
    globals,        \* per run: the module namespace, option name -> value
    binds,          \* per run: how many assignments have bound each name
    received        \* per run: what the generator was handed (<<>> or <<record>>)

vars == <<githubOmitted, phase, pc, globals, binds, received>>

-----------------------------------------------------------------------------
(* Source text: the literal forms that occur in the file.                  *)

\* a quoted string literal; q is the quote character used in the source
Str(q, s) == [k |-> "str", q |-> q, text |-> s]

\* a decimal integer literal, as its sequence of digit characters
Num(ds) == [k |-> "num", digits |-> ds]

\* a bare identifier on the right-hand side (True, False)
Name(id) == [k |-> "name", id |-> id]

\* a parenthesised form ( e1, e2, ... ) ; comma: a trailing comma is written
Paren(es, comma) == [k |-> "paren", elems |-> es, comma |-> comma]

\* a list display [ e1, e2, ... ]
List(es) == [k |-> "list", elems |-> es]

NoExpr == [k |-> "none"]

\* a logical line NAME = expr starting at physical line ln
Assign(ln, name, expr) == [ln |-> ln, hash |-> FALSE, name |-> name, expr |-> expr]

\* a line "# NAME = expr": an assignment behind a comment sign
Commented(ln, name, expr) == [ln |-> ln, hash |-> TRUE, name |-> name, expr |-> expr]

\* a comment line holding prose (or the shebang / coding line)
Prose(ln) == [ln |-> ln, hash |-> TRUE, name |-> "", expr |-> NoExpr]

DEFAULT_LANG == Assign(4, "DEFAULT_LANG", Str("'", "en"))

AUTHOR == Assign(6, "AUTHOR", Str("\"", "Douglas Alan"))

SITENAME == Assign(7, "SITENAME", Str("\"", "The Daily Functor"))

SITESUBTITLE == Assign(8, "SITESUBTITLE", Str("'", "2.0 Steps Forward, 1.0 Steps Back"))

\* variant: line 9 without its comment sign
SITEURL_uncommented == Assign(9, "SITEURL", Str("'", "http://nessus42.github.com/daily-functor"))

SITEURL_commented == Commented(9, "SITEURL", Str("'", "http://nessus42.github.com/daily-functor"))

SITEURL == Assign(10, "SITEURL", Str("'", "http://dailyfunctor.gaffa.org"))

GITHUB_URL == Assign(16, "GITHUB_URL", Str("'", "http://github.com/nessus42/daily-functor"))

DISQUS_SITENAME == Assign(18, "DISQUS_SITENAME", Str("\"", "dailyfunctor"))

FEED_RSS == Assign(20, "FEED_RSS", Str("'", "feeds/all.rss.xml"))

CATEGORY_FEED_RSS == Assign(21, "CATEGORY_FEED_RSS", Str("'", "feeds/%s.rss.xml"))

PDF_GENERATOR == Assign(23, "PDF_GENERATOR", Name("False"))

REVERSE_CATEGORY_ORDER == Assign(24, "REVERSE_CATEGORY_ORDER", Name("True"))

LOCALE == Assign(25, "LOCALE", Str("\"", ""))

DEFAULT_PAGINATION == Assign(26, "DEFAULT_PAGINATION", Num(<<"2">>))

CLEAN_URLS == Assign(27, "CLEAN_URLS", Name("False"))

TIMEZONE == Assign(29, "TIMEZONE", Str("'", "America/New_York"))

\* variant: the two elements change places
PairLitSwapped(a, b) == Paren(<<Str("'", b), Str("'", a)>>, FALSE)

\* a two-element parenthesised form ('a', 'b') with single-quoted strings
PairLit(a, b) == Paren(<<Str("'", a), Str("'", b)>>, FALSE)

LINKS ==
    Assign(34, "LINKS",
        Paren(<< PairLit("Pelican", "http://docs.notmyidea.org/alexis/pelican/"),
                 PairLit("Python.org", "http://python.org"),
                 PairLit("Jinja2", "http://jinja.pocoo.org"),
                 PairLit("You can modify those links in your config file", "#") >>,
              FALSE))

SOCIAL ==
    Assign(42, "SOCIAL",
        Paren(<< PairLit("twitter", "http://twitter.com/ametaireau"),
                 PairLit("lastfm", "http://lastfm.com/user/akounet"),
                 PairLit("github", "http://github.com/ametaireau") >>,
              TRUE))

THEME == Assign(51, "THEME", Str("'", "da-clean"))

CSS_FILE_commented == Commented(52, "CSS_FILE", Str("'", "style.css"))

THEME_mnmlist == Commented(53, "THEME", Str("'", "mnmlist"))

THEME_JustRead == Commented(54, "THEME", Str("'", "Just-Read"))

\* variant: line 55 without its comment sign
THEME_bootstrap_active == Assign(55, "THEME", Str("'", "bootstrap"))

THEME_bootstrap == Commented(55, "THEME", Str("'", "bootstrap"))

DEFAULT_METADATA ==
    Assign(59, "DEFAULT_METADATA", Paren(<< PairLit("yeah", "it is") >>, TRUE))

\* variant: a second path in the list
STATIC_PATHS_two == Assign(62, "STATIC_PATHS", List(<< Str("'", "images"), Str("'", "extra") >>))

STATIC_PATHS == Assign(62, "STATIC_PATHS", List(<< Str("'", "images") >>))

FILES_TO_COPY ==
    Assign(65, "FILES_TO_COPY", Paren(<< PairLit("extra/robots.txt", "robots.txt") >>, TRUE))

\* the file as shipped, in line order (blank lines left out)
File ==
    << Prose(1), Prose(3), DEFAULT_LANG, AUTHOR, SITENAME, SITESUBTITLE,
       SITEURL_commented, SITEURL,
       Prose(12), Prose(13), Prose(14), Prose(15), GITHUB_URL,
       DISQUS_SITENAME, FEED_RSS, CATEGORY_FEED_RSS,
       PDF_GENERATOR, REVERSE_CATEGORY_ORDER, LOCALE, DEFAULT_PAGINATION, CLEAN_URLS,
       TIMEZONE,
       Prose(33), LINKS, Prose(41), SOCIAL,
       Prose(47), Prose(48), Prose(49),
       THEME, CSS_FILE_commented, THEME_mnmlist, THEME_JustRead, THEME_bootstrap,
       Prose(58), DEFAULT_METADATA, Prose(61), STATIC_PATHS, Prose(64), FILES_TO_COPY >>

\* "Comment this entry out if you don't want the GitHub banner": line 16 behind '#'
CommentOut(file, ln) ==
    [i \in DOMAIN file |-> IF file[i].ln = ln THEN [file[i] EXCEPT !.hash = TRUE] ELSE file[i]]

\* the file the runs read
FileOnDisk == IF githubOmitted THEN CommentOut(File, GITHUB_URL.ln) ELSE File

-----------------------------------------------------------------------------
(* Execution of the module.                                                *)

\* variant: the comment sign is not looked at
IsStatementIgnoringHash(l) == l.name # ""

\* a line is a statement unless it is a comment: '#' hides the rest of the line
IsStatement(l) == ~l.hash /\ l.name # ""

\* the statements of a file, in order
Statements(file) == SelectSeq(file, IsStatement)

\* the names an expression may refer to: the builtin constants
Builtins == [True |-> TRUE, False |-> FALSE]

DigitValue(c) ==
    CASE c = "0" -> 0 [] c = "1" -> 1 [] c = "2" -> 2 [] c = "3" -> 3 [] c = "4" -> 4
      [] c = "5" -> 5 [] c = "6" -> 6 [] c = "7" -> 7 [] c = "8" -> 8 [] c = "9" -> 9

RECURSIVE ParseInt(_)

\* variant: the last digit is shifted in but its value is not added
ParseIntDropDigit(ds) ==
    IF ds = <<>> THEN 0 ELSE 10 * ParseInt(SubSeq(ds, 1, Len(ds) - 1))

\* value of a decimal literal
ParseInt(ds) ==
    IF ds = <<>> THEN 0
    ELSE 10 * ParseInt(SubSeq(ds, 1, Len(ds) - 1)) + DigitValue(ds[Len(ds)])

\* variant: the trailing comma is not looked at
IsTupleDisplayNoComma(e) == Len(e.elems) # 1

\* ( e ) without a comma is e itself; every other parenthesised form is a tuple
IsTupleDisplay(e) == Len(e.elems) # 1 \/ e.comma

RECURSIVE Raises(_)
\* evaluating e raises NameError: it refers to a name that is not defined
Raises(e) ==
    CASE e.k = "name" -> e.id \notin DOMAIN Builtins
      [] e.k \in {"paren", "list"} -> \E i \in 1..Len(e.elems) : Raises(e.elems[i])
      [] OTHER -> FALSE

RECURSIVE Eval(_)

\* variant: the elements are collected back to front
ElementsReversed(e) == [i \in 1..Len(e.elems) |-> Eval(e.elems[Len(e.elems) + 1 - i])]

\* the values of the elements of a display, in the order written
Elements(e) == [i \in 1..Len(e.elems) |-> Eval(e.elems[i])]

\* the value of a literal expression, tagged with its Python type
Eval(e) ==
    CASE e.k = "str" -> [t |-> "str", v |-> e.text]
      [] e.k = "num" -> [t |-> "int", v |-> ParseInt(e.digits)]
      [] e.k = "name" -> [t |-> "bool", v |-> Builtins[e.id]]
      [] e.k = "paren" ->
            IF IsTupleDisplay(e) THEN [t |-> "tuple", v |-> Elements(e)] ELSE Eval(e.elems[1])
      [] e.k = "list" -> [t |-> "list", v |-> Elements(e)]

EmptyNs == [n \in {} |-> 0]

\* NAME = value in namespace ns: a new binding, or a rebinding of NAME
Bind(ns, name, val) ==
    [n \in DOMAIN ns \cup {name} |-> IF n = name THEN val ELSE ns[n]]

\* one more assignment to name
Count(bs, name) ==
    [n \in DOMAIN bs \cup {name} |->
        IF n = name THEN (IF n \in DOMAIN bs THEN bs[n] + 1 ELSE 1) ELSE bs[n]]

Init ==
    /\ githubOmitted \in BOOLEAN
    /\ phase = [r \in Runs |-> "start"]
    /\ pc = [r \in Runs |-> 1]
    /\ globals = [r \in Runs |-> EmptyNs]
    /\ binds = [r \in Runs |-> EmptyNs]
    /\ received = [r \in Runs |-> <<>>]

\* run r opens the file and starts executing it in a fresh namespace
Start(r) ==
    /\ phase[r] = "start"
    /\ phase' = [phase EXCEPT ![r] = IF Statements(FileOnDisk) = <<>> THEN "loaded" ELSE "exec"]
    /\ pc' = [pc EXCEPT ![r] = 1]
    /\ globals' = [globals EXCEPT ![r] = EmptyNs]
    /\ binds' = [binds EXCEPT ![r] = EmptyNs]
    /\ UNCHANGED <<githubOmitted, received>>

\* variant: every run binds into the namespace of run 1
ExecStmtShared(r) ==
    /\ phase[r] = "exec"
    /\ pc[r] <= Len(Statements(FileOnDisk))
    /\ LET stmts == Statements(FileOnDisk)
           s == stmts[pc[r]]
       IN  IF Raises(s.expr)
           THEN /\ phase' = [phase EXCEPT ![r] = "error"]
                /\ UNCHANGED <<pc, globals, binds>>
           ELSE /\ globals' = [globals EXCEPT ![r] = Bind(globals[1], s.name, Eval(s.expr))]
                /\ binds' = [binds EXCEPT ![r] = Count(binds[r], s.name)]
                /\ pc' = [pc EXCEPT ![r] = pc[r] + 1]
                /\ phase' = [phase EXCEPT ![r] = IF pc[r] = Len(stmts) THEN "loaded" ELSE "exec"]
    /\ UNCHANGED <<githubOmitted, received>>

\* run r executes its next statement; after the last one the module is loaded
ExecStmt(r) ==
    /\ phase[r] = "exec"
    /\ pc[r] <= Len(Statements(FileOnDisk))
    /\ LET stmts == Statements(FileOnDisk)
           s == stmts[pc[r]]
       IN  IF Raises(s.expr)
           THEN /\ phase' = [phase EXCEPT ![r] = "error"]
                /\ UNCHANGED <<pc, globals, binds>>
           ELSE /\ globals' = [globals EXCEPT ![r] = Bind(globals[r], s.name, Eval(s.expr))]
                /\ binds' = [binds EXCEPT ![r] = Count(binds[r], s.name)]
                /\ pc' = [pc EXCEPT ![r] = pc[r] + 1]
                /\ phase' = [phase EXCEPT ![r] = IF pc[r] = Len(stmts) THEN "loaded" ELSE "exec"]
    /\ UNCHANGED <<githubOmitted, received>>

\* the loaded record is handed to the generator
Handoff(r) ==
    /\ phase[r] = "loaded"
    /\ received' = [received EXCEPT ![r] = <<globals[r]>>]
    /\ phase' = [phase EXCEPT ![r] = "handed"]
    /\ UNCHANGED <<githubOmitted, pc, globals, binds>>

\* the process exits; its record is discarded
Exit(r) ==
    /\ phase[r] = "handed"
    /\ phase' = [phase EXCEPT ![r] = "exited"]
    /\ globals' = [globals EXCEPT ![r] = EmptyNs]
    /\ received' = [received EXCEPT ![r] = <<>>]
    /\ UNCHANGED <<githubOmitted, pc, binds>>

Next == \E r \in Runs : Start(r) \/ ExecStmt(r) \/ Handoff(r) \/ Exit(r)

Spec == Init /\ [][Next]_vars

-----------------------------------------------------------------------------
(* Properties of the loaded record.                                        *)

\* run r has executed the whole file and still holds its record
Loaded(r) == phase[r] \in {"loaded", "handed"}

Has(r, n) == n \in DOMAIN globals[r]

\* x is the scalar v of Python type t
IsVal(x, t, v) == x.t = t /\ x.v = v

\* x is the tuple (a, b) of two strings
IsPair(x, a, b) ==
    /\ x.t = "tuple"
    /\ Len(x.v) = 2
    /\ IsVal(x.v[1], "str", a)
    /\ IsVal(x.v[2], "str", b)

\* x is a tuple whose entries are, in order, the pairs of strings listed in ps
IsPairSeq(x, ps) ==
    /\ x.t = "tuple"
    /\ Len(x.v) = Len(ps)
    /\ \A i \in 1..Len(ps) : IsPair(x.v[i], ps[i][1], ps[i][2])

\* the scalar options as written in the file, GITHUB_URL apart
DeclaredScalars ==
    << <<"DEFAULT_LANG", "str", "en">>,
       <<"AUTHOR", "str", "Douglas Alan">>,
       <<"SITENAME", "str", "The Daily Functor">>,
       <<"SITESUBTITLE", "str", "2.0 Steps Forward, 1.0 Steps Back">>,
       <<"SITEURL", "str", "http://dailyfunctor.gaffa.org">>,
       <<"DISQUS_SITENAME", "str", "dailyfunctor">>,
       <<"FEED_RSS", "str", "feeds/all.rss.xml">>,
       <<"CATEGORY_FEED_RSS", "str", "feeds/%s.rss.xml">>,
       <<"PDF_GENERATOR", "bool", FALSE>>,
       <<"REVERSE_CATEGORY_ORDER", "bool", TRUE>>,
       <<"LOCALE", "str", "">>,
       <<"DEFAULT_PAGINATION", "int", 2>>,
       <<"CLEAN_URLS", "bool", FALSE>>,
       <<"TIMEZONE", "str", "America/New_York">>,
       <<"THEME", "str", "da-clean">> >>

DeclaredLinks ==
    << <<"Pelican", "http://docs.notmyidea.org/alexis/pelican/">>,
       <<"Python.org", "http://python.org">>,
       <<"Jinja2", "http://jinja.pocoo.org">>,
       <<"You can modify those links in your config file", "#">> >>

DeclaredSocial ==
    << <<"twitter", "http://twitter.com/ametaireau">>,
       <<"lastfm", "http://lastfm.com/user/akounet">>,
       <<"github", "http://github.com/ametaireau">> >>

DeclaredMetadata == << <<"yeah", "it is">> >>

DeclaredCopies == << <<"extra/robots.txt", "robots.txt">> >>

DeclaredGithubUrl == "http://github.com/nessus42/daily-functor"

PairSeqOptions == {"LINKS", "SOCIAL", "DEFAULT_METADATA", "FILES_TO_COPY"}

\* the option names with an assignment in the shipped file, GITHUB_URL apart
DeclaredNames ==
    {DeclaredScalars[i][1] : i \in 1..Len(DeclaredScalars)}
        \cup PairSeqOptions \cup {"STATIC_PATHS"}

ScalarsAsDeclared(r) ==
    \A i \in 1..Len(DeclaredScalars) :
        /\ Has(r, DeclaredScalars[i][1])
        /\ IsVal(globals[r][DeclaredScalars[i][1]], DeclaredScalars[i][2], DeclaredScalars[i][3])

SequencesAsDeclared(r) ==
    /\ Has(r, "LINKS") /\ IsPairSeq(globals[r]["LINKS"], DeclaredLinks)
    /\ Has(r, "SOCIAL") /\ IsPairSeq(globals[r]["SOCIAL"], DeclaredSocial)
    /\ Has(r, "DEFAULT_METADATA") /\ IsPairSeq(globals[r]["DEFAULT_METADATA"], DeclaredMetadata)
    /\ Has(r, "FILES_TO_COPY") /\ IsPairSeq(globals[r]["FILES_TO_COPY"], DeclaredCopies)
    /\ Has(r, "STATIC_PATHS")
    /\ globals[r]["STATIC_PATHS"].t = "list"
    /\ Len(globals[r]["STATIC_PATHS"].v) = 1
    /\ IsVal(globals[r]["STATIC_PATHS"].v[1], "str", "images")

\* the banner is shown exactly when the record has a GITHUB_URL (lines 12-16)
BannerEnabled(r) == Has(r, "GITHUB_URL")

\* C1: once a run has loaded the file, every option declared in it is in the
\* record with exactly the declared literal value and type (DEFAULT_PAGINATION
\* the integer 2, CLEAN_URLS and PDF_GENERATOR the boolean false,
\* REVERSE_CATEGORY_ORDER true, LOCALE the empty string, TIMEZONE
\* 'America/New_York'), and the record has no other name.
C1_LoadedValuesAsDeclared ==
    \A r \in Runs : Loaded(r) =>
        /\ ScalarsAsDeclared(r)
        /\ SequencesAsDeclared(r)
        /\ IsVal(globals[r]["DEFAULT_PAGINATION"], "int", 2)
        /\ IsVal(globals[r]["CLEAN_URLS"], "bool", FALSE)
        /\ IsVal(globals[r]["PDF_GENERATOR"], "bool", FALSE)
        /\ IsVal(globals[r]["REVERSE_CATEGORY_ORDER"], "bool", TRUE)
        /\ IsVal(globals[r]["LOCALE"], "str", "")
        /\ IsVal(globals[r]["TIMEZONE"], "str", "America/New_York")
        /\ ~githubOmitted => /\ Has(r, "GITHUB_URL")
                             /\ IsVal(globals[r]["GITHUB_URL"], "str", DeclaredGithubUrl)
        /\ DOMAIN globals[r] \subseteq DeclaredNames \cup {"GITHUB_URL"}

C1_Witness ==
    \E r \in Runs :
        /\ phase[r] = "loaded"
        /\ ~githubOmitted
        /\ Has(r, "DEFAULT_PAGINATION")
        /\ globals[r]["DEFAULT_PAGINATION"].t = "int"
        /\ Cardinality(DOMAIN globals[r]) = Cardinality(DeclaredNames) + 1

\* C2: LINKS loads as a sequence of exactly 4 (label, URL) pairs in the declared
\* order: Pelican, Python.org, Jinja2, then the placeholder whose URL is '#';
\* the i-th loaded entry is the value of the i-th entry written in the file.
C2_LinksInDeclaredOrder ==
    \A r \in Runs : Loaded(r) =>
        /\ Has(r, "LINKS")
        /\ globals[r]["LINKS"].t = "tuple"
        /\ Len(globals[r]["LINKS"].v) = 4
        /\ IsPair(globals[r]["LINKS"].v[1], "Pelican", "http://docs.notmyidea.org/alexis/pelican/")
        /\ IsPair(globals[r]["LINKS"].v[2], "Python.org", "http://python.org")
        /\ IsPair(globals[r]["LINKS"].v[3], "Jinja2", "http://jinja.pocoo.org")
        /\ globals[r]["LINKS"].v[4].t = "tuple"
        /\ IsVal(globals[r]["LINKS"].v[4].v[2], "str", "#")
        /\ \A i \in 1..Len(LINKS.expr.elems) :
              /\ LINKS.expr.elems[i].elems[1].text = globals[r]["LINKS"].v[i].v[1].v
              /\ LINKS.expr.elems[i].elems[2].text = globals[r]["LINKS"].v[i].v[2].v

C2_Witness ==
    \E r \in Runs :
        /\ Loaded(r)
        /\ Has(r, "LINKS")
        /\ Len(globals[r]["LINKS"].v) = 4
        /\ globals[r]["LINKS"].v[1].v[1].v = "Pelican"

C4_GithubUrlOptional ==
    \A r \in Runs :
        /\ phase[r] # "error"
        /\ (Loaded(r) /\ githubOmitted) =>
              /\ ~BannerEnabled(r)
              /\ ScalarsAsDeclared(r)
              /\ SequencesAsDeclared(r)
              /\ DOMAIN globals[r] = DeclaredNames
        /\ (Loaded(r) /\ ~githubOmitted) =>
              /\ BannerEnabled(r)
              /\ IsVal(globals[r]["GITHUB_URL"], "str", DeclaredGithubUrl)

C4_Witness ==
    \E r \in Runs :
        /\ githubOmitted
        /\ phase[r] = "loaded"
        /\ ~BannerEnabled(r)
        /\ Has(r, "SITEURL")

\* C5: STATIC_PATHS loads as a collection of strings whose membership is
\* exactly {"images"}: one element, no other element, no duplicate.
C5_StaticPathsOnlyImages ==
    \A r \in Runs : Loaded(r) =>
        /\ Has(r, "STATIC_PATHS")
        /\ globals[r]["STATIC_PATHS"].t = "list"
        /\ \A i \in DOMAIN globals[r]["STATIC_PATHS"].v : globals[r]["STATIC_PATHS"].v[i].t = "str"
        /\ {globals[r]["STATIC_PATHS"].v[i].v : i \in DOMAIN globals[r]["STATIC_PATHS"].v} = {"images"}
        /\ Len(globals[r]["STATIC_PATHS"].v) = 1

C5_Witness ==
    \E r \in Runs :
        /\ Loaded(r)
        /\ Has(r, "STATIC_PATHS")
        /\ globals[r]["STATIC_PATHS"].v # <<>>

\* C6: FILES_TO_COPY loads as a sequence of length exactly one whose element is
\* the pair ("extra/robots.txt", "robots.txt"), source first, destination second.
C6_FilesToCopyOnePair ==
    \A r \in Runs : Loaded(r) =>
        /\ Has(r, "FILES_TO_COPY")
        /\ globals[r]["FILES_TO_COPY"].t = "tuple"
        /\ Len(globals[r]["FILES_TO_COPY"].v) = 1
        /\ IsPair(globals[r]["FILES_TO_COPY"].v[1], "extra/robots.txt", "robots.txt")

C6_Witness ==
    \E r \in Runs :
        /\ Loaded(r)
        /\ Has(r, "FILES_TO_COPY")
        /\ globals[r]["FILES_TO_COPY"].v[1].t = "tuple"

\* C7: the record is populated by one pass over the file, each name bound
\* once; no step of a run changes the value of a name already in its record
\* until the run exits, and what the generator holds is that same record.
C7_RecordNeverMutated ==
    /\ [][\A r \in Runs : phase'[r] # "exited" =>
            \A n \in DOMAIN globals[r] :
                /\ n \in DOMAIN globals'[r]
                /\ globals'[r][n] = globals[r][n]]_vars
    /\ [][\A r \in Runs : (Loaded(r) /\ phase'[r] # "exited") => globals'[r] = globals[r]]_vars
    /\ [](\A r \in Runs : phase[r] = "handed" => received[r] = <<globals[r]>>)
    /\ [](\A r \in Runs : \A n \in DOMAIN binds[r] : binds[r][n] <= 1)

C7_Witness ==
    \E r \in Runs :
        /\ phase[r] = "handed"
        /\ received[r] # <<>>
        /\ Has(r, "FILES_TO_COPY")
        /\ \E q \in Runs : phase[q] = "exec" /\ pc[q] > 1

\* C9: every name in the loaded record was bound by exactly one assignment;
\* the lines behind a comment sign have no effect: SITEURL is
\* 'http://dailyfunctor.gaffa.org', THEME is 'da-clean', CSS_FILE is absent.
C9_OneActiveAssignmentPerName ==
    \A r \in Runs : Loaded(r) =>
        /\ DOMAIN binds[r] = DOMAIN globals[r]
        /\ \A n \in DOMAIN globals[r] : binds[r][n] = 1
        /\ Has(r, "SITEURL")
        /\ IsVal(globals[r]["SITEURL"], "str", "http://dailyfunctor.gaffa.org")
        /\ Has(r, "THEME")
        /\ IsVal(globals[r]["THEME"], "str", "da-clean")
        /\ globals[r]["THEME"].v \notin {"mnmlist", "Just-Read", "bootstrap"}
        /\ ~Has(r, "CSS_FILE")

C9_Witness ==
    \E r \in Runs :
        /\ Loaded(r)
        /\ Has(r, "THEME")
        /\ binds[r]["THEME"] = 1
        /\ binds[r]["SITEURL"] = 1

\* C10: each of LINKS, SOCIAL, DEFAULT_METADATA and FILES_TO_COPY loads as a
\* sequence whose every entry is a pair of exactly two strings, also when it
\* has one entry; SOCIAL has 3 entries in the order twitter, lastfm, github and
\* DEFAULT_METADATA has the single entry ('yeah', 'it is').
C10_PairSequences ==
    \A r \in Runs : Loaded(r) =>
        /\ \A o \in PairSeqOptions :
              /\ Has(r, o)
              /\ globals[r][o].t = "tuple"
              /\ \A i \in DOMAIN globals[r][o].v :
                    /\ globals[r][o].v[i].t = "tuple"
                    /\ Len(globals[r][o].v[i].v) = 2
                    /\ globals[r][o].v[i].v[1].t = "str"
                    /\ globals[r][o].v[i].v[2].t = "str"
        /\ Len(globals[r]["SOCIAL"].v) = 3
        /\ globals[r]["SOCIAL"].v[1].v[1].v = "twitter"
        /\ globals[r]["SOCIAL"].v[2].v[1].v = "lastfm"
        /\ globals[r]["SOCIAL"].v[3].v[1].v = "github"
        /\ Len(globals[r]["DEFAULT_METADATA"].v) = 1
        /\ IsPair(globals[r]["DEFAULT_METADATA"].v[1], "yeah", "it is")

C10_Witness ==
    \E r \in Runs :
        /\ Loaded(r)
        /\ Has(r, "DEFAULT_METADATA")
        /\ Has(r, "SOCIAL")
        /\ Len(globals[r]["DEFAULT_METADATA"].v) = 1
        /\ Len(globals[r]["SOCIAL"].v) = 3

====
